---- MODULE Spec2Model ----
(***************************************************************************)
(* Model of rbf/linalg.py: the LAPACK wrappers, Solver, PosDefSolver,      *)
(* is_positive_definite, PartitionedSolver and PartitionedPosDefSolver.    *)
(*                                                                         *)
(* Numbers are exact: a scalar is <<n, d, r>>, the real (n/d)*sqrt(r) with *)
(* d > 0, gcd(n, d) = 1 and r a squarefree positive integer, so that the   *)
(* square roots of a Cholesky factor are values and not approximations.    *)
(* An array is [sp |-> FALSE, shape, v]: v holds shape[1] rows, each the   *)
(* flattened trailing axes.  A sparse matrix is [sp |-> TRUE, shape, nz]   *)
(* with nz the set of stored <<row, column, value>> entries.               *)
(***************************************************************************)
EXTENDS Integers, Sequences, FiniteSets, TLC

VARIABLES HAS_CHOLMOD, inst, made, last

vars == <<HAS_CHOLMOD, inst, made, last>>

\* ------------------------------------------------------------------ bounds
\* largest dimension N of a square matrix A
MaxN == 2
\* diagonal entries of A are drawn from 0..MaxVal
MaxVal == 2
\* largest number P of columns of a constraint block B
MaxP == 1

\* ------------------------------------------------------- exact arithmetic
Abs(x) == IF x < 0 THEN -x ELSE x

RECURSIVE Gcd(_, _)
Gcd(a, b) == IF b = 0 THEN a ELSE Gcd(b, a % b)

\* (n/d)*sqrt(r) in normal form, for d # 0 and r squarefree
Num(n, d, r) ==
  IF n = 0 THEN <<0, 1, 1>>
  ELSE LET g == Gcd(Abs(n), Abs(d))
           s == IF d < 0 THEN -1 ELSE 1
       IN  <<(s * n) \div g, (s * d) \div g, r>>

Zero == <<0, 1, 1>>
One == <<1, 1, 1>>
Real(n) == <<n, 1, 1>>

IsZero(x) == x[1] = 0
IsPos(x) == x[1] > 0

Neg(x) == <<-x[1], x[2], x[3]>>

Mul(x, y) ==
  LET g == Gcd(x[3], y[3])
  IN  Num(x[1] * y[1] * g, x[2] * y[2], (x[3] \div g) * (y[3] \div g))

\* 1/x for x # 0
Inv(x) == Num(x[2], x[1] * x[3], x[3])

Div(x, y) == Mul(x, Inv(y))

\* the sum of two values over the same radical (always the case in the
\* substitutions below, where every product under a sum is rational)
Add(x, y) ==
  CASE IsZero(x) -> y
    [] IsZero(y) -> x
    [] x[3] = y[3] -> Num(x[1] * y[2] + y[1] * x[2], x[2] * y[2], x[3])

Sub(x, y) == Add(x, Neg(y))

\* the largest s with s*s dividing m, for m >= 1
RECURSIVE SquarePart(_, _)
SquarePart(m, s) ==
  IF s * s > m THEN 1
  ELSE LET rest == SquarePart(m, s + 1)
       IN  IF rest > 1 THEN rest
           ELSE IF m % (s * s) = 0 THEN s ELSE 1

\* sqrt of a positive rational
Sqrt(x) ==
  LET m == x[1] * x[2]
      s == SquarePart(m, 1)
  IN  Num(s, x[2], m \div (s * s))

\* |x| < |y|
AbsLess(x, y) ==
  x[1] * x[1] * x[3] * y[2] * y[2] < y[1] * y[1] * y[3] * x[2] * x[2]

RECURSIVE SumSeq(_)
SumSeq(s) == IF s = <<>> THEN Zero ELSE Add(Head(s), SumSeq(Tail(s)))

RECURSIVE ProdSeq(_)
ProdSeq(s) == IF s = <<>> THEN One ELSE Mul(Head(s), ProdSeq(Tail(s)))

RECURSIVE ProdInts(_)
ProdInts(s) == IF s = <<>> THEN 1 ELSE Head(s) * ProdInts(Tail(s))

\* ----------------------------------------------------------------- arrays
Arr(shape, v) == [sp |-> FALSE, shape |-> shape, v |-> v]

\* number of values in one row: the product of the trailing axes
Width(shape) == ProdInts(Tail(shape))

\* np.zeros(shape)
zeros(shape) ==
  Arr(shape, [i \in 1..shape[1] |-> [j \in 1..Width(shape) |-> Zero]])

\* any(i == 0 for i in b.shape)
HasZeroAxis(shape) == \E i \in DOMAIN shape : shape[i] = 0

\* rows of the matrix product X.Y, X with n rows and m columns, Y with k
Dot(X, Y, n, m, k) ==
  [i \in 1..n |-> [j \in 1..k |->
     SumSeq([l \in 1..m |-> Mul(X[i][l], Y[l][j])])]]

\* rows of the transpose of X, X with n rows and m columns
Transp(X, n, m) == [j \in 1..m |-> [i \in 1..n |-> X[i][j]]]

MapRows(X, Op(_)) == [i \in DOMAIN X |-> [j \in DOMAIN X[i] |-> Op(X[i][j])]]

ZipRows(X, Y, Op(_, _)) ==
  [i \in DOMAIN X |-> [j \in DOMAIN X[i] |-> Op(X[i][j], Y[i][j])]]

\* column j of the rows X, and the rows made of the columns cs
Col(X, j) == [i \in DOMAIN X |-> X[i][j]]
FromCols(cs, n) == [i \in 1..n |-> [j \in DOMAIN cs |-> cs[j][i]]]

\* ------------------------------------------------ triangular substitution
\* y with L.y = b, L lower triangular (unit: its diagonal is taken as 1)
RECURSIVE ForwardSub(_, _, _, _)
ForwardSub(L, b, unit, y) ==
  LET i == Len(y) + 1
  IN  IF i > Len(b) THEN y
      ELSE LET s == Sub(b[i], SumSeq([j \in 1..(i - 1) |-> Mul(L[i][j], y[j])]))
           IN  ForwardSub(L, b, unit,
                          Append(y, IF unit THEN s ELSE Div(s, L[i][i])))

\* x with U.x = b, U upper triangular; x holds the entries after row i
RECURSIVE BackSub(_, _, _, _)
BackSub(U, b, i, x) ==
  IF i < 1 THEN x
  ELSE LET n == Len(b)
           s == Sub(b[i],
                    SumSeq([j \in 1..(n - i) |-> Mul(U[i][i + j], x[j])]))
       IN  BackSub(U, b, i - 1, <<Div(s, U[i][i])>> \o x)

\* ------------------------------------------------------- LAPACK routines
\* row of the pivot of column k: the first row of largest magnitude
PivotRow(M, k, n) ==
  CHOOSE i \in k..n :
    \A j \in k..n : /\ ~AbsLess(M[i][k], M[j][k])
                    /\ (j < i => AbsLess(M[j][k], M[i][k]))

SwapRows(M, i, j) ==
  [r \in DOMAIN M |-> IF r = i THEN M[j] ELSE IF r = j THEN M[i] ELSE M[r]]

\* dgetrf: P.L.U with partial pivoting, L and U packed in fac, 0-based piv,
\* info = the first k with U(k,k) exactly zero
RECURSIVE GetrfStep(_, _, _, _, _)
GetrfStep(M, piv, info, k, n) ==
  IF k > n THEN [fac |-> M, piv |-> piv, info |-> info]
  ELSE LET p == PivotRow(M, k, n)
           S == SwapRows(M, k, p)
       IN  IF IsZero(S[k][k])
           THEN GetrfStep(S, Append(piv, p - 1),
                          IF info = 0 THEN k ELSE info, k + 1, n)
           ELSE GetrfStep(
                  [i \in 1..n |->
                     IF i <= k THEN S[i]
                     ELSE LET f == Div(S[i][k], S[k][k])
                          IN  [j \in 1..n |->
                                 IF j < k THEN S[i][j]
                                 ELSE IF j = k THEN f
                                 ELSE Sub(S[i][j], Mul(f, S[k][j]))]],
                  Append(piv, p - 1), info, k + 1, n)

dgetrf(A) == GetrfStep(A.v, <<>>, 0, 1, A.shape[1])

RECURSIVE ApplyPivots(_, _, _)
ApplyPivots(X, piv, k) ==
  IF k > Len(piv) THEN X
  ELSE ApplyPivots(SwapRows(X, k, piv[k] + 1), piv, k + 1)

UpperOf(M) == [i \in DOMAIN M |-> [j \in DOMAIN M[i] |->
                 IF j >= i THEN M[i][j] ELSE Zero]]

\* dgetrs: row interchanges, then the unit lower and the upper solve, one
\* column of b at a time; info < 0 for a b that does not fit fac
dgetrs(fac, piv, b) ==
  LET n == Len(fac)
      k == Width(b.shape)
  IN  IF Len(b.shape) > 2 \/ b.shape[1] # n
      THEN [x |-> b, info |-> -3]
      ELSE LET P == ApplyPivots(b.v, piv, 1)
               cs == [j \in 1..k |->
                        BackSub(UpperOf(fac),
                                ForwardSub(fac, Col(P, j), TRUE, <<>>),
                                n, <<>>)]
           IN  [x |-> Arr(b.shape, FromCols(cs, n)), info |-> 0]

\* dpotrf(lower=True): column by column over the lower triangle of A, the
\* upper triangle of the result cleared; info = j when the leading minor
\* of order j is not positive, info < 0 for an argument that is no square
\* matrix
RECURSIVE PotrfStep(_, _, _, _)
PotrfStep(A, L, j, n) ==
  IF j > n THEN [L |-> L, info |-> 0]
  ELSE LET ajj == Sub(A[j][j], SumSeq([k \in 1..(j - 1) |-> Mul(L[j][k], L[j][k])]))
       IN  IF ~IsPos(ajj) THEN [L |-> L, info |-> j]
           ELSE LET ljj == Sqrt(ajj)
                IN  PotrfStep(A,
                      [i \in 1..n |-> [c \in 1..n |->
                         IF c # j THEN L[i][c]
                         ELSE IF i < j THEN Zero
                         ELSE IF i = j THEN ljj
                         ELSE Div(Sub(A[i][j],
                                      SumSeq([k \in 1..(j - 1) |->
                                                Mul(L[i][k], L[j][k])])),
                                  ljj)]],
                      j + 1, n)

IsSquare(shape) == Len(shape) = 2 /\ shape[1] = shape[2]

dpotrf(A) ==
  IF ~IsSquare(A.shape) THEN [L |-> A.v, info |-> -1]
  ELSE PotrfStep(A.v, zeros(A.shape).v, 1, A.shape[1])

\* dpotrs(lower=True): L.y = b, then Lt.x = y
dpotrs(L, b) ==
  LET n == Len(L)
      k == Width(b.shape)
  IN  IF Len(b.shape) > 2 \/ b.shape[1] # n
      THEN [x |-> b, info |-> -2]
      ELSE LET cs == [j \in 1..k |->
                        BackSub(Transp(L, n, n),
                                ForwardSub(L, Col(b.v, j), FALSE, <<>>),
                                n, <<>>)]
           IN  [x |-> Arr(b.shape, FromCols(cs, n)), info |-> 0]

\* dtrtrs(lower=True): L.x = b; info = i when L(i,i) is zero
dtrtrs(L, b) ==
  LET n == Len(L)
      k == Width(b.shape)
  IN  IF Len(b.shape) > 2 \/ b.shape[1] # n
      THEN [x |-> b, info |-> -2]
      ELSE IF \E i \in 1..n : IsZero(L[i][i])
      THEN [x |-> b, info |-> CHOOSE i \in 1..n :
                                /\ IsZero(L[i][i])
                                /\ \A j \in 1..(i - 1) : ~IsZero(L[j][j])]
      ELSE LET cs == [j \in 1..k |-> ForwardSub(L, Col(b.v, j), FALSE, <<>>)]
           IN  [x |-> Arr(b.shape, FromCols(cs, n)), info |-> 0]

\* ------------------------------------------------------------------ errors
\* an error is <<exception class, message>>
NoError == <<>>
IllegalValue == <<"ValueError", "argument had an illegal value">>
Singular == <<"LinAlgError", "U is exactly zero">>
NotPositiveDefinite == <<"LinAlgError", "leading minor is not positive definite">>
ZeroDiagonal == <<"LinAlgError", "diagonal element is zero">>
BlockSingular == <<"LinAlgError", "fewer rows than columns in B">>
NotOneOrTwoDim == <<"ValueError", "b must be one or two dimensional">>
ShapeMismatch == <<"ValueError", "array dimensions must match">>
IndexOutOfBounds == <<"IndexError", "index out of bounds">>
CholmodUnbound == <<"NameError", "name cholmod is not defined">>
SuperLUSingular == <<"RuntimeError", "Factor is exactly singular">>
SuperLUShape == <<"ValueError", "b is of incompatible size">>
CholmodNotPositiveDefinite == <<"CholmodNotPositiveDefiniteError", "matrix is not positive definite">>
CholmodNotSquare == <<"CholmodError", "matrix must be square">>

\* ------------------------------------------------- outcomes of operations
\* a returned value, or a raised error, with the backend routines called
\* on the way, the number of warnings emitted, and the factorizations and
\* solves of the strategy objects in the order they were started
Ok(v, calls) ==
  [ok |-> TRUE, val |-> v, err |-> NoError, calls |-> calls, warns |-> 0,
   steps |-> <<>>]
Raise(e, calls) ==
  [ok |-> FALSE, val |-> <<>>, err |-> e, calls |-> calls, warns |-> 0,
   steps |-> <<>>]

\* the outcome r of the strategy operation name
Step(name, r) == [r EXCEPT !.steps = <<<<name>>>> \o @]

\* the outcome r of a call made through the attribute attr
Via(attr, r) == [r EXCEPT !.steps = [i \in DOMAIN @ |-> <<attr>> \o @[i]]]

\* the outcome r preceded by the calls and warnings of an earlier step
After(calls, warns, r) ==
  [r EXCEPT !.calls = calls \o r.calls, !.warns = warns + r.warns]

\* x bound to a name for the expression F
With(x, F(_)) == F(x)

\* the outcome s of the statement after the one with outcome r
Follow(r, s) == [After(r.calls, r.warns, s) EXCEPT !.steps = r.steps \o @]

\* the statement after r: F on the value of r, or the error r raised
Then(r, F(_)) == IF r.ok THEN Follow(r, F(r.val)) ELSE r

\* the value of r passed through the expression G
Returning(r, G(_)) == IF r.ok THEN [r EXCEPT !.val = G(r.val)] ELSE r

\* --------------------------------------------- wrappers of LAPACK routines
_lu_zero_pivot_accepted(A) ==
  IF A.shape = <<0, 0>>
  THEN Ok([fac |-> <<>>, piv |-> <<>>], <<>>)
  ELSE With(dgetrf(A), LAMBDA r :
         IF r.info < 0 THEN Raise(IllegalValue, <<"dgetrf">>)
         ELSE Ok([fac |-> r.fac, piv |-> r.piv], <<"dgetrf">>))

_lu(A) ==
  IF A.shape = <<0, 0>>
  THEN Ok([fac |-> <<>>, piv |-> <<>>], <<>>)
  ELSE With(dgetrf(A), LAMBDA r :
         IF r.info < 0 THEN Raise(IllegalValue, <<"dgetrf">>)
         ELSE IF r.info > 0 THEN Raise(Singular, <<"dgetrf">>)
         ELSE Ok([fac |-> r.fac, piv |-> r.piv], <<"dgetrf">>))

_solve_lu(fac, piv, b) ==
  IF HasZeroAxis(b.shape) THEN Ok(zeros(b.shape), <<>>)
  ELSE With(dgetrs(fac, piv, b), LAMBDA r :
         IF r.info # 0 THEN Raise(IllegalValue, <<"dgetrs">>)
         ELSE Ok(r.x, <<"dgetrs">>))

_cholesky_one_error_kind(A) ==
  IF A.shape = <<0, 0>> THEN Ok(zeros(<<0, 0>>), <<>>)
  ELSE With(dpotrf(A), LAMBDA r :
         IF r.info # 0 THEN Raise(NotPositiveDefinite, <<"dpotrf">>)
         ELSE Ok(Arr(A.shape, r.L), <<"dpotrf">>))

_cholesky_minor_ignored(A) ==
  IF A.shape = <<0, 0>> THEN Ok(zeros(<<0, 0>>), <<>>)
  ELSE With(dpotrf(A), LAMBDA r :
         IF r.info < 0 THEN Raise(IllegalValue, <<"dpotrf">>)
         ELSE Ok(Arr(A.shape, r.L), <<"dpotrf">>))

_cholesky(A) ==
  IF A.shape = <<0, 0>> THEN Ok(zeros(<<0, 0>>), <<>>)
  ELSE With(dpotrf(A), LAMBDA r :
         IF r.info > 0 THEN Raise(NotPositiveDefinite, <<"dpotrf">>)
         ELSE IF r.info < 0 THEN Raise(IllegalValue, <<"dpotrf">>)
         ELSE Ok(Arr(A.shape, r.L), <<"dpotrf">>))

_solve_cholesky_forward_only(L, b) ==
  IF HasZeroAxis(b.shape) THEN Ok(zeros(b.shape), <<>>)
  ELSE With(dtrtrs(L.v, b), LAMBDA r :
         IF r.info < 0 THEN Raise(IllegalValue, <<"dpotrs">>)
         ELSE Ok(r.x, <<"dpotrs">>))

_solve_cholesky_shape_checked_first(L, b) ==
  With(dpotrs(L.v, b), LAMBDA r :
    IF r.info < 0 THEN Raise(IllegalValue, <<"dpotrs">>)
    ELSE IF HasZeroAxis(b.shape) THEN Ok(zeros(b.shape), <<>>)
    ELSE Ok(r.x, <<"dpotrs">>))

_solve_cholesky(L, b) ==
  IF HasZeroAxis(b.shape) THEN Ok(zeros(b.shape), <<>>)
  ELSE With(dpotrs(L.v, b), LAMBDA r :
         IF r.info < 0 THEN Raise(IllegalValue, <<"dpotrs">>)
         ELSE Ok(r.x, <<"dpotrs">>))

_solve_triangular(L, b) ==
  IF HasZeroAxis(b.shape) THEN Ok(zeros(b.shape), <<>>)
  ELSE With(dtrtrs(L.v, b), LAMBDA r :
         IF r.info < 0 THEN Raise(IllegalValue, <<"dtrtrs">>)
         ELSE IF r.info > 0 THEN Raise(ZeroDiagonal, <<"dtrtrs">>)
         ELSE Ok(r.x, <<"dtrtrs">>))

\* -------------------------------------------------------- representation
\* scipy sparse matrix in format fmt holding the nonzero entries of rows X
SparseOf(fmt, shape, X) ==
  [sp |-> TRUE, fmt |-> fmt, shape |-> shape,
   nz |-> {<<i, j, X[i][j]>> : i \in 1..shape[1], j \in 1..shape[2]}
            \ {<<i, j, Zero>> : i \in 1..shape[1], j \in 1..shape[2]}]

\* A.toarray()
toarray(A) ==
  Arr(A.shape,
      [i \in 1..A.shape[1] |-> [j \in 1..A.shape[2] |->
         IF \E e \in A.nz : e[1] = i /\ e[2] = j
         THEN (CHOOSE e \in A.nz : e[1] = i /\ e[2] = j)[3]
         ELSE Zero]])

\* sp.csc_matrix(A)
csc_matrix(A) == [A EXCEPT !.fmt = "csc"]

as_sparse_or_array(A) == IF A.sp THEN csc_matrix(A) ELSE A

as_array(A) == IF A.sp THEN toarray(A) ELSE A

\* -------------------------------------------------------- sparse backends
\* spla.spilu(A): the factors of the stored matrix (at the magnitudes of
\* the bounded inputs no entry falls under the drop tolerance); a zero
\* pivot is reported as "Factor is exactly singular"
spilu(A) ==
  With(dgetrf(toarray(A)), LAMBDA r :
    IF r.info > 0 THEN Raise(SuperLUSingular, <<"spilu">>)
    ELSE Ok([fac |-> r.fac, piv |-> r.piv], <<"spilu">>))

\* SuperLU.solve(b)
SuperLU_solve(factor, b) ==
  IF HasZeroAxis(b.shape) THEN Ok(zeros(b.shape), <<"SuperLU.solve">>)
  ELSE With(dgetrs(factor.fac, factor.piv, b), LAMBDA r :
         IF r.info # 0 THEN Raise(SuperLUShape, <<"SuperLU.solve">>)
         ELSE Ok(r.x, <<"SuperLU.solve">>))

\* the set of orderings a fill-reducing method may return: every
\* permutation of 0..n-1
Orderings(n) ==
  {q \in [1..n -> 0..(n - 1)] : \A i, j \in 1..n : q[i] = q[j] => i = j}

IdentityOrdering(n) == [i \in 1..n |-> i - 1]

\* unit lower l and diagonal d with l.diag(d).lt = M, column by column;
\* minor = the number of columns factored before a pivot was not positive
RECURSIVE LdlStep(_, _, _, _, _)
LdlStep(M, l, d, j, n) ==
  IF j > n THEN [l |-> l, d |-> d, minor |-> n]
  ELSE LET dj == Sub(M[j][j],
                     SumSeq([k \in 1..(j - 1) |->
                               Mul(Mul(l[j][k], l[j][k]), d[k])]))
       IN  IF ~IsPos(dj) THEN [l |-> l, d |-> d, minor |-> j - 1]
           ELSE LdlStep(M,
                  [i \in 1..n |-> [c \in 1..n |->
                     IF c # j THEN l[i][c]
                     ELSE IF i < j THEN Zero
                     ELSE IF i = j THEN One
                     ELSE Div(Sub(M[i][j],
                                  SumSeq([k \in 1..(j - 1) |->
                                            Mul(Mul(l[i][k], l[j][k]), d[k])])),
                              dj)]],
                  Append(d, dj), j + 1, n)

\* X[p][:, p]: rows and columns of X taken in the order p
TakeBoth(X, p) == [i \in DOMAIN p |-> [j \in DOMAIN p |-> X[p[i] + 1][p[j] + 1]]]

\* cholmod.cholesky(A, ordering_method='default'), the backend having
\* chosen the ordering p: the factors of A[p][:, p]
cholmod_cholesky(A, p) ==
  IF ~IsSquare(A.shape) THEN Raise(CholmodNotSquare, <<"cholmod.cholesky">>)
  ELSE With(LdlStep(TakeBoth(toarray(A).v, p), zeros(A.shape).v, <<>>, 1,
                    A.shape[1]),
            LAMBDA r :
              IF r.minor < A.shape[1]
              THEN Raise(CholmodNotPositiveDefinite, <<"cholmod.cholesky">>)
              ELSE Ok([l |-> r.l, d |-> r.d, p |-> p], <<"cholmod.cholesky">>))

\* b[p]: the rows of b taken in the order p
TakeRows(X, p) == [i \in DOMAIN p |-> X[p[i] + 1]]

\* np.argsort(p)
argsort(p) == [i \in DOMAIN p |-> (CHOOSE k \in DOMAIN p : p[k] = i - 1) - 1]

\* Factor.solve_A(b)
cholmod_solve_A(factor, b) ==
  IF HasZeroAxis(b.shape) THEN Ok(zeros(b.shape), <<"cholmod.solve_A">>)
  ELSE LET n == Len(factor.d)
           k == Width(b.shape)
           bp == TakeRows(b.v, factor.p)
           cs == [j \in 1..k |->
                    LET y == ForwardSub(factor.l, Col(bp, j), TRUE, <<>>)
                        z == [i \in 1..n |-> Div(y[i], factor.d[i])]
                    IN  BackSub(Transp(factor.l, n, n), z, n, <<>>)]
       IN  Ok(Arr(b.shape, TakeRows(FromCols(cs, n), argsort(factor.p))),
              <<"cholmod.solve_A">>)

\* Factor.solve_L(b), against the unit lower factor
cholmod_solve_L(factor, b) ==
  IF HasZeroAxis(b.shape) THEN Ok(zeros(b.shape), <<"cholmod.solve_L">>)
  ELSE LET n == Len(factor.d)
           cs == [j \in 1..Width(b.shape) |->
                    ForwardSub(factor.l, Col(b.v, j), TRUE, <<>>)]
       IN  Ok(Arr(b.shape, FromCols(cs, n)), <<"cholmod.solve_L">>)

\* Factor.L(): the lower factor of the LLt form, l.diag(sqrt(d))
cholmod_L(factor) ==
  LET n == Len(factor.d)
  IN  SparseOf("csc", <<n, n>>,
               [i \in 1..n |-> [j \in 1..n |->
                  Mul(factor.l[i][j], Sqrt(factor.d[j]))]])

\* ------------------------------------------------------------- logarithms
\* np.log(x) for x > 0 is kept as <<"log", x>>; a sum of logarithms is the
\* logarithm of the product and twice a logarithm that of the square
LogOf(x) == <<"log", x>>
SumLogs(xs) == LogOf(ProdSeq([i \in DOMAIN xs |-> xs[i][2]]))
TwiceLog(x) == LogOf(Mul(x[2], x[2]))

\* ------------------------------------------------------------------ Solver
_SparseSolver_init(A) ==
  Step("factor",
       Returning(spilu(A), LAMBDA f : [cls |-> "_SparseSolver", factor |-> f]))

_SparseSolver_solve(self, b) == Step("solve", SuperLU_solve(self.factor, b))

_DenseSolver_init(A) ==
  Step("factor",
       Returning(_lu(A), LAMBDA f :
         [cls |-> "_DenseSolver", fac |-> f.fac, piv |-> f.piv]))

_DenseSolver_solve(self, b) ==
  Step("solve", _solve_lu(self.fac, self.piv, b))

Solver_init_densifying(A) ==
  With(as_array(A), LAMBDA A1 :
    Returning(_DenseSolver_init(A1),
              LAMBDA s : [cls |-> "Solver", _solver |-> s]))

Solver_init(A) ==
  With(as_sparse_or_array(A), LAMBDA A1 :
    Returning(IF A1.sp THEN _SparseSolver_init(A1) ELSE _DenseSolver_init(A1),
              LAMBDA s : [cls |-> "Solver", _solver |-> s]))

Solver_solve(self, b) ==
  With(as_array(b), LAMBDA b1 :
    IF self._solver.cls = "_SparseSolver"
    THEN _SparseSolver_solve(self._solver, b1)
    ELSE _DenseSolver_solve(self._solver, b1))

\* ------------------------------------------------------------ PosDefSolver
\* the name cholmod is bound only when the import at module load succeeded
_SparsePosDefSolver_init(A, p) ==
  IF ~HAS_CHOLMOD THEN Raise(CholmodUnbound, <<>>)
  ELSE Step("factor",
            Returning(cholmod_cholesky(A, p), LAMBDA f :
              [cls |-> "_SparsePosDefSolver", factor |-> f, d |-> f.d,
               p |-> f.p]))

_SparsePosDefSolver_solve(self, b) ==
  Step("solve", cholmod_solve_A(self.factor, b))

_SparsePosDefSolver_solve_L_rows_not_permuted(self, b) ==
  IF Len(b.shape) \notin {1, 2} THEN Raise(NotOneOrTwoDim, <<>>)
  ELSE Returning(
         cholmod_solve_L(self.factor, b),
         LAMBDA x :
           Arr(x.shape, [i \in DOMAIN x.v |-> [j \in DOMAIN x.v[i] |->
                           Mul(Inv(Sqrt(self.d[i])), x.v[i][j])]]))

_SparsePosDefSolver_solve_L(self, b) ==
  IF Len(b.shape) \notin {1, 2} THEN Raise(NotOneOrTwoDim, <<>>)
  ELSE IF \E i \in DOMAIN self.p : self.p[i] + 1 > b.shape[1]
  THEN Raise(IndexOutOfBounds, <<>>)
  ELSE Returning(
         cholmod_solve_L(self.factor,
                         Arr(<<Len(self.p)>> \o Tail(b.shape),
                             TakeRows(b.v, self.p))),
         LAMBDA x :
           Arr(x.shape, [i \in DOMAIN x.v |-> [j \in DOMAIN x.v[i] |->
                           Mul(Inv(Sqrt(self.d[i])), x.v[i][j])]]))

_SparsePosDefSolver_L_rows_not_reindexed(self) ==
  Ok(cholmod_L(self.factor), <<"cholmod.L">>)

_SparsePosDefSolver_L(self) ==
  With(cholmod_L(self.factor), LAMBDA L :
    With(argsort(self.p), LAMBDA p_inv :
      Ok([L EXCEPT !.nz =
            UNION {{<<i, e[2], e[3]>> :
                      e \in {f \in L.nz : f[1] = p_inv[i] + 1}} :
                   i \in DOMAIN p_inv}],
         <<"cholmod.L">>)))

_SparsePosDefSolver_log_det(self) ==
  Ok(SumLogs([i \in DOMAIN self.d |-> LogOf(self.d[i])]), <<>>)

_DensePosDefSolver_init(A) ==
  Step("factor",
       Returning(_cholesky(A), LAMBDA L :
         [cls |-> "_DensePosDefSolver", chol |-> L]))

_DensePosDefSolver_solve(self, b) ==
  Step("solve", _solve_cholesky(self.chol, b))

_DensePosDefSolver_solve_L(self, b) == _solve_triangular(self.chol, b)

_DensePosDefSolver_L(self) == Ok(self.chol, <<>>)

\* the attribute whose object L() hands to the caller, <<>> when the value
\* is a new object: `return self.chol`
_DensePosDefSolver_L_object(self) == <<"chol">>

\* `out = L[p_inv]`: a new matrix
_SparsePosDefSolver_L_object(self) == <<>>

_DensePosDefSolver_log_det_not_doubled(self) ==
  Ok(SumLogs([i \in DOMAIN self.chol.v |-> LogOf(self.chol.v[i][i])]), <<>>)

_DensePosDefSolver_log_det(self) ==
  Ok(TwiceLog(SumLogs([i \in DOMAIN self.chol.v |->
                         LogOf(self.chol.v[i][i])])), <<>>)

\* warnings.warn(CHOLMOD_MSG) and A.toarray(), when A is sparse and the
\* import failed
Fallback(A) == A.sp /\ ~HAS_CHOLMOD

PosDefSolver_strategy(A, p) ==
  Returning(IF A.sp THEN _SparsePosDefSolver_init(A, p)
            ELSE _DensePosDefSolver_init(A),
            LAMBDA s : [cls |-> "PosDefSolver", _solver |-> s])

PosDefSolver_init_sparse_kept(A, p) ==
  With(as_sparse_or_array(A), LAMBDA A1 :
    After(<<>>, IF Fallback(A1) THEN 1 ELSE 0, PosDefSolver_strategy(A1, p)))

PosDefSolver_init_silent(A, p) ==
  With(as_sparse_or_array(A), LAMBDA A1 :
    PosDefSolver_strategy(IF Fallback(A1) THEN toarray(A1) ELSE A1, p))

\* p: the ordering the sparse backend returns if it is asked
PosDefSolver_init(A, p) ==
  With(as_sparse_or_array(A), LAMBDA A1 :
    After(<<>>, IF Fallback(A1) THEN 1 ELSE 0,
          PosDefSolver_strategy(IF Fallback(A1) THEN toarray(A1) ELSE A1, p)))

PosDefSolver_solve(self, b) ==
  With(as_array(b), LAMBDA b1 :
    IF self._solver.cls = "_SparsePosDefSolver"
    THEN _SparsePosDefSolver_solve(self._solver, b1)
    ELSE _DensePosDefSolver_solve(self._solver, b1))

PosDefSolver_solve_L(self, b) ==
  With(as_array(b), LAMBDA b1 :
    IF self._solver.cls = "_SparsePosDefSolver"
    THEN _SparsePosDefSolver_solve_L(self._solver, b1)
    ELSE _DensePosDefSolver_solve_L(self._solver, b1))

PosDefSolver_L(self) ==
  IF self._solver.cls = "_SparsePosDefSolver"
  THEN _SparsePosDefSolver_L(self._solver)
  ELSE _DensePosDefSolver_L(self._solver)

\* `return self._solver.L()`
PosDefSolver_L_object(self) ==
  With(IF self._solver.cls = "_SparsePosDefSolver"
       THEN _SparsePosDefSolver_L_object(self._solver)
       ELSE _DensePosDefSolver_L_object(self._solver),
       LAMBDA o : IF o = <<>> THEN <<>> ELSE <<"_solver">> \o o)

PosDefSolver_log_det(self) ==
  IF self._solver.cls = "_SparsePosDefSolver"
  THEN _SparsePosDefSolver_log_det(self._solver)
  ELSE _DensePosDefSolver_log_det(self._solver)

ExceptNotPositiveDefinite_catch_all(t) ==
  IF t.ok THEN [t EXCEPT !.val = TRUE]
  ELSE [t EXCEPT !.ok = TRUE, !.val = FALSE, !.err = NoError]

\* the except clause of is_positive_definite on the outcome t of the try
\* body: evaluating the clause needs the name cholmod, so without the
\* import it raises NameError itself
ExceptNotPositiveDefinite(t) ==
  IF t.ok THEN [t EXCEPT !.val = TRUE]
  ELSE IF ~HAS_CHOLMOD THEN [t EXCEPT !.err = CholmodUnbound]
  ELSE IF t.err[1] \in {"LinAlgError", "CholmodNotPositiveDefiniteError"}
  THEN [t EXCEPT !.ok = TRUE, !.val = FALSE, !.err = NoError]
  ELSE t

is_positive_definite(A, p) ==
  ExceptNotPositiveDefinite(Then(PosDefSolver_init(A, p), PosDefSolver_L))

\* ---------------------------------------------------- array expressions
\* X.T
T(X) == Arr(<<X.shape[2], X.shape[1]>>, Transp(X.v, X.shape[1], X.shape[2]))

\* X.dot(Y) for a 2-D X and a 1-D or 2-D Y
dot(X, Y) ==
  Arr(<<X.shape[1]>> \o Tail(Y.shape),
      Dot(X.v, Y.v, X.shape[1], X.shape[2], Width(Y.shape)))

neg(X) == Arr(X.shape, MapRows(X.v, Neg))
add(X, Y) == Arr(X.shape, ZipRows(X.v, Y.v, Add))
sub(X, Y) == Arr(X.shape, ZipRows(X.v, Y.v, Sub))

\* np.vstack((np.hstack((A, B)), np.hstack((B.T, Z))))
DenseBlock(A, B, n, p) ==
  Arr(<<n + p, n + p>>,
      [i \in 1..(n + p) |-> [j \in 1..(n + p) |->
         IF i <= n /\ j <= n THEN A.v[i][j]
         ELSE IF i <= n THEN B.v[i][j - n]
         ELSE IF j <= n THEN B.v[j][i - n]
         ELSE Zero]])

SparseBlock_densified(A, B, n, p) == DenseBlock(toarray(A), B, n, p)

\* sp.vstack((sp.hstack((A, B)), sp.hstack((B.T, Z))))
SparseBlock(A, B, n, p) ==
  [sp |-> TRUE, fmt |-> "coo", shape |-> <<n + p, n + p>>,
   nz |-> (A.nz
           \cup {<<i, n + j, B.v[i][j]>> : i \in 1..n, j \in 1..p}
           \cup {<<n + j, i, B.v[i][j]>> : i \in 1..n, j \in 1..p})
          \ {<<i, j, Zero>> : i \in 1..(n + p), j \in 1..(n + p)}]

\* -------------------------------------------------------- PartitionedSolver
PartitionedSolver_build_check_after_factoring(A1, B1, n, p) ==
  Then(Via("_solver", Solver_init(IF A1.sp THEN SparseBlock(A1, B1, n, p)
                                  ELSE DenseBlock(A1, B1, n, p))),
       LAMBDA s :
         IF n < p THEN Raise(BlockSingular, <<>>)
         ELSE Ok([cls |-> "PartitionedSolver", _solver |-> s, n |-> n], <<>>))

PartitionedSolver_build(A1, B1, n, p) ==
  IF n < p THEN Raise(BlockSingular, <<>>)
  ELSE Returning(Via("_solver",
                     Solver_init(IF A1.sp THEN SparseBlock(A1, B1, n, p)
                                 ELSE DenseBlock(A1, B1, n, p))),
                 LAMBDA s : [cls |-> "PartitionedSolver", _solver |-> s, n |-> n])

PartitionedSolver_init(A, B) ==
  With(as_array(B), LAMBDA B1 :
    PartitionedSolver_build(as_sparse_or_array(A), B1, B1.shape[1], B1.shape[2]))

\* xy[:n] and xy[n:]
RowsTo(X, n) ==
  Arr(<<IF n < X.shape[1] THEN n ELSE X.shape[1]>> \o Tail(X.shape),
      SubSeq(X.v, 1, n))
RowsFrom(X, n) ==
  Arr(<<IF n < X.shape[1] THEN X.shape[1] - n ELSE 0>> \o Tail(X.shape),
      SubSeq(X.v, n + 1, X.shape[1]))

\* np.concatenate((a, b), axis=0)
concatenate(a, b) ==
  IF Tail(a.shape) # Tail(b.shape) THEN Raise(ShapeMismatch, <<>>)
  ELSE Ok(Arr(<<a.shape[1] + b.shape[1]>> \o Tail(a.shape), a.v \o b.v), <<>>)

PartitionedSolver_solve_split_at_P(self, a, b) ==
  Then(concatenate(as_array(a), as_array(b)), LAMBDA c :
    Returning(Via("_solver", Solver_solve(self._solver, c)), LAMBDA xy :
      <<RowsTo(xy, as_array(b).shape[1]),
        RowsFrom(xy, as_array(b).shape[1])>>))

PartitionedSolver_solve(self, a, b) ==
  Then(concatenate(as_array(a), as_array(b)), LAMBDA c :
    Returning(Via("_solver", Solver_solve(self._solver, c)), LAMBDA xy :
      <<RowsTo(xy, self.n), RowsFrom(xy, self.n)>>))

\* -------------------------------------------------- PartitionedPosDefSolver
PartitionedPosDefSolver_build_schur_shifted(A1, B1, p) ==
  IF B1.shape[1] < B1.shape[2] THEN Raise(BlockSingular, <<>>)
  ELSE Then(Via("_A_solver", PosDefSolver_init(A1, p)), LAMBDA A_solver :
         Then(Via("_A_solver", PosDefSolver_solve(A_solver, B1)), LAMBDA AiB :
           Returning(Via("_BtAiB_solver",
                         PosDefSolver_init(
                           add(dot(T(B1), AiB),
                               Arr(<<B1.shape[2], B1.shape[2]>>,
                                   [i \in 1..B1.shape[2] |->
                                      [j \in 1..B1.shape[2] |->
                                         IF i = j THEN One ELSE Zero]])),
                           IdentityOrdering(B1.shape[2]))),
                     LAMBDA BtAiB_solver :
                       [cls |-> "PartitionedPosDefSolver",
                        _AiB |-> AiB,
                        _A_solver |-> A_solver,
                        _BtAiB_solver |-> BtAiB_solver])))

PartitionedPosDefSolver_build_sparse_schur(A1, B1, p) ==
  IF B1.shape[1] < B1.shape[2] THEN Raise(BlockSingular, <<>>)
  ELSE Then(Via("_A_solver", PosDefSolver_init(A1, p)), LAMBDA A_solver :
         Then(Via("_A_solver", PosDefSolver_solve(A_solver, B1)), LAMBDA AiB :
           Returning(Via("_BtAiB_solver",
                         PosDefSolver_init(
                           With(dot(T(B1), AiB), LAMBDA S :
                             SparseOf("csc", S.shape, S.v)),
                           IdentityOrdering(B1.shape[2]))),
                     LAMBDA BtAiB_solver :
                       [cls |-> "PartitionedPosDefSolver",
                        _AiB |-> AiB,
                        _A_solver |-> A_solver,
                        _BtAiB_solver |-> BtAiB_solver])))

PartitionedPosDefSolver_build_check_after_factoring(A1, B1, p) ==
  Then(Via("_A_solver", PosDefSolver_init(A1, p)), LAMBDA A_solver :
    IF B1.shape[1] < B1.shape[2] THEN Raise(BlockSingular, <<>>)
    ELSE Then(Via("_A_solver", PosDefSolver_solve(A_solver, B1)), LAMBDA AiB :
           Returning(Via("_BtAiB_solver",
                         PosDefSolver_init(dot(T(B1), AiB),
                                           IdentityOrdering(B1.shape[2]))),
                     LAMBDA BtAiB_solver :
                       [cls |-> "PartitionedPosDefSolver",
                        _AiB |-> AiB,
                        _A_solver |-> A_solver,
                        _BtAiB_solver |-> BtAiB_solver])))

PartitionedPosDefSolver_build(A1, B1, p) ==
  IF B1.shape[1] < B1.shape[2] THEN Raise(BlockSingular, <<>>)
  ELSE Then(Via("_A_solver", PosDefSolver_init(A1, p)), LAMBDA A_solver :
         Then(Via("_A_solver", PosDefSolver_solve(A_solver, B1)), LAMBDA AiB :
           Returning(Via("_BtAiB_solver",
                         PosDefSolver_init(dot(T(B1), AiB),
                                           IdentityOrdering(B1.shape[2]))),
                     LAMBDA BtAiB_solver :
                       [cls |-> "PartitionedPosDefSolver",
                        _AiB |-> AiB,
                        _A_solver |-> A_solver,
                        _BtAiB_solver |-> BtAiB_solver])))

PartitionedPosDefSolver_init(A, B, p) ==
  PartitionedPosDefSolver_build(as_sparse_or_array(A), as_array(B), p)

PartitionedPosDefSolver_combine_Aia_dropped(self, Eb, Dta, Aia) ==
  <<add(neg(dot(self._AiB, Dta)), neg(dot(self._AiB, Eb))), add(Dta, Eb)>>

PartitionedPosDefSolver_combine_Db_dropped(self, Eb, Dta, Aia) ==
  <<sub(Aia, dot(self._AiB, Dta)), add(Dta, Eb)>>

\* x = Ca + Db and y = Dta + Eb
PartitionedPosDefSolver_combine(self, Eb, Dta, Aia) ==
  <<add(sub(Aia, dot(self._AiB, Dta)), neg(dot(self._AiB, Eb))),
    add(Dta, Eb)>>

PartitionedPosDefSolver_solve_sign_lost(self, a, b) ==
  Then(Via("_BtAiB_solver",
           PosDefSolver_solve(self._BtAiB_solver, as_array(b))), LAMBDA Sb :
    Then(Via("_BtAiB_solver",
             PosDefSolver_solve(self._BtAiB_solver,
                                dot(T(self._AiB), as_array(a)))),
         LAMBDA Dta :
           Returning(Via("_A_solver",
                         PosDefSolver_solve(self._A_solver, as_array(a))),
                     LAMBDA Aia :
                       PartitionedPosDefSolver_combine(self, Sb, Dta, Aia))))

PartitionedPosDefSolver_solve_AiB_recomputed(self, a, b) ==
  Then(Via("_BtAiB_solver",
           PosDefSolver_solve(self._BtAiB_solver, as_array(b))), LAMBDA Sb :
    Then(Via("_A_solver", PosDefSolver_solve(self._A_solver, as_array(a))),
         LAMBDA Aia :
           Then(Via("_BtAiB_solver",
                    PosDefSolver_solve(self._BtAiB_solver,
                                       dot(T(self._AiB), as_array(a)))),
                LAMBDA Dta :
                  Returning(Via("_A_solver",
                                PosDefSolver_solve(self._A_solver,
                                                   dot(self._AiB, Dta))),
                            LAMBDA AiBDta :
                              <<add(sub(Aia, AiBDta),
                                    neg(dot(self._AiB, neg(Sb)))),
                                add(Dta, neg(Sb))>>))))

PartitionedPosDefSolver_solve(self, a, b) ==
  Then(Via("_BtAiB_solver",
           PosDefSolver_solve(self._BtAiB_solver, as_array(b))), LAMBDA Sb :
    Then(Via("_BtAiB_solver",
             PosDefSolver_solve(self._BtAiB_solver,
                                dot(T(self._AiB), as_array(a)))),
         LAMBDA Dta :
           Returning(Via("_A_solver",
                         PosDefSolver_solve(self._A_solver, as_array(a))),
                     LAMBDA Aia :
                       PartitionedPosDefSolver_combine(self, neg(Sb), Dta,
                                                       Aia))))

\* ------------------------------------------------------------------ inputs
\* symmetric n by n matrices: any diagonal over 0..MaxVal, the entries off
\* the diagonal all zero or all one
SymRows(n) ==
  {[i \in 1..n |-> [j \in 1..n |-> IF i = j THEN Real(d[i]) ELSE o]] :
     d \in [1..n -> 0..MaxVal], o \in {Zero, One}}

\* the square matrices a caller passes as A: arrays and csr matrices
SquareInputs ==
  UNION {{Arr(<<n, n>>, X) : X \in SymRows(n)}
         \cup {SparseOf("csr", <<n, n>>, X) : X \in SymRows(n)} :
         n \in 0..MaxN}

\* the identity matrix of order 3, as an array and as a csr matrix
IdentityRows(n) == [i \in 1..n |-> [j \in 1..n |-> IF i = j THEN One ELSE Zero]]

ScenarioInputs ==
  {Arr(<<3, 3>>, IdentityRows(3)), SparseOf("csr", <<3, 3>>, IdentityRows(3))}

\* matrices that are not square
MalformedInputs ==
  {Arr(<<1, 2>>, <<<<One, One>>>>),
   SparseOf("csr", <<1, 2>>, <<<<One, One>>>>)}

\* the orderings the sparse backend can return for A
OrderingsFor(A) ==
  IF A.sp /\ HAS_CHOLMOD /\ IsSquare(A.shape) THEN Orderings(A.shape[1])
  ELSE {IdentityOrdering(A.shape[1])}

\* constraint blocks B for an n by n A, with p <= MaxP columns: the
\* monomials 1, i, i*i, ... of the row index, the same with the last
\* column zero, and the leading unit vectors; and one block with more
\* columns than rows
RECURSIVE Power(_, _)
Power(x, k) == IF k = 0 THEN 1 ELSE x * Power(x, k - 1)

BlocksFor(n) ==
  UNION {{Arr(<<n, p>>, [i \in 1..n |-> [j \in 1..p |-> Real(Power(i - 1, j - 1))]]),
          Arr(<<n, p>>, [i \in 1..n |-> [j \in 1..p |->
                           IF j = p THEN Zero ELSE Real(Power(i - 1, j - 1))]]),
          Arr(<<n, p>>, [i \in 1..n |-> [j \in 1..p |->
                           IF i = j THEN One ELSE Zero]])} :
         p \in 0..(IF n < MaxP THEN n ELSE MaxP)}
  \cup {Arr(<<n, n + 1>>, [i \in 1..n |-> [j \in 1..(n + 1) |-> One]])}

\* a sparse B: one column of ones
SparseBlocksFor(n) == {SparseOf("csr", <<n, 1>>, [i \in 1..n |-> <<One>>])}

\* right-hand sides with n rows: the 1-D vectors of zeros, of ones, of twos
\* and the first unit vector, the 2-D array of ones and the unit vector, an
\* array with no column and a 1-D array of length zero
RhsFor(n) ==
  {Arr(<<n>>, [i \in 1..n |-> <<Zero>>]),
   Arr(<<n>>, [i \in 1..n |-> <<Real(2)>>]),
   Arr(<<n>>, [i \in 1..n |-> <<One>>]),
   Arr(<<n>>, [i \in 1..n |-> <<IF i = 1 THEN One ELSE Zero>>]),
   Arr(<<n, 2>>, [i \in 1..n |-> <<One, IF i = 1 THEN One ELSE Zero>>]),
   zeros(<<n, 0>>),
   zeros(<<0>>)}

\* ------------------------------------------------------------------- state
NoInst == [cls |-> "None"]
\* the arguments of the constructor call that made the instance, and the
\* instance as that call returned it
NoArgs == [A |-> <<>>, B |-> <<>>, p |-> <<>>, self |-> NoInst]
Call(op, x, y, p, out) == [op |-> op, x |-> x, y |-> y, p |-> p, out |-> out]

Init ==
  /\ HAS_CHOLMOD \in BOOLEAN
  /\ inst = NoInst
  /\ made = NoArgs
  /\ last = Call("none", <<>>, <<>>, <<>>, Ok(<<>>, <<>>))

Fresh == inst = NoInst /\ last.op = "none"

\* a constructor call: the instance exists only if no error was raised
Construct(op, A, B, p, r) ==
  /\ last' = Call(op, A, B, p, r)
  /\ inst' = IF r.ok THEN r.val ELSE NoInst
  /\ made' = IF r.ok THEN [A |-> A, B |-> B, p |-> p, self |-> r.val]
             ELSE NoArgs
  /\ UNCHANGED HAS_CHOLMOD

Method_factor_dropped(op, x, y, r) ==
  /\ last' = Call(op, x, y, <<>>, r)
  /\ inst' = [cls |-> inst.cls]
  /\ UNCHANGED <<HAS_CHOLMOD, made>>

\* a method call on the instance: it assigns no attribute
Method(op, x, y, r) ==
  /\ last' = Call(op, x, y, <<>>, r)
  /\ UNCHANGED <<HAS_CHOLMOD, inst, made>>

NewSolver ==
  /\ Fresh
  /\ \E A \in SquareInputs :
       Construct("Solver", A, <<>>, <<>>, Solver_init(A))

NewPosDefSolver ==
  /\ Fresh
  /\ \E A \in SquareInputs \cup MalformedInputs :
       \E p \in OrderingsFor(A) :
         Construct("PosDefSolver", A, <<>>, p, PosDefSolver_init(A, p))

NewPartitionedSolver ==
  /\ Fresh
  /\ \E A \in SquareInputs \cup ScenarioInputs :
       \E B \in BlocksFor(A.shape[1]) \cup SparseBlocksFor(A.shape[1]) :
         Construct("PartitionedSolver", A, B, <<>>,
                   PartitionedSolver_init(A, B))

NewPartitionedPosDefSolver ==
  /\ Fresh
  /\ \E A \in SquareInputs \cup ScenarioInputs :
       \E B \in BlocksFor(A.shape[1]) \cup SparseBlocksFor(A.shape[1]) :
         \E p \in OrderingsFor(A) :
           Construct("PartitionedPosDefSolver", A, B, p,
                     PartitionedPosDefSolver_init(A, B, p))

IsPositiveDefinite ==
  /\ Fresh
  /\ \E A \in SquareInputs \cup MalformedInputs :
       \E p \in OrderingsFor(A) :
         /\ last' = Call("is_positive_definite", A, <<>>, p,
                         is_positive_definite(A, p))
         /\ UNCHANGED <<HAS_CHOLMOD, inst, made>>

\* a right-hand side passed as a sparse matrix: the column of ones
SparseRhsFor(n) ==
  {SparseOf("csr", <<n, 1>>, [i \in 1..n |-> <<One>>])}

\* right-hand sides for the dense strategies whose shape does not fit an
\* n by n matrix: three axes or n + 1 rows with an axis of length zero,
\* and n + 1 ones
MisshapenRhsFor(n) ==
  {zeros(<<n, 0, 1>>), zeros(<<n + 1, 0>>),
   Arr(<<n + 1>>, [i \in 1..(n + 1) |-> <<One>>])}

DenseRhsFor(self, n) ==
  IF self._solver.cls \in {"_DenseSolver", "_DensePosDefSolver"}
  THEN MisshapenRhsFor(n)
  ELSE {}

SolverSolve ==
  /\ inst.cls = "Solver"
  /\ \E b \in RhsFor(made.A.shape[1]) \cup SparseRhsFor(made.A.shape[1])
              \cup DenseRhsFor(inst, made.A.shape[1]) :
       Method("Solver.solve", b, <<>>, Solver_solve(inst, b))

PosDefSolve ==
  /\ inst.cls = "PosDefSolver"
  /\ \E b \in RhsFor(made.A.shape[1]) \cup SparseRhsFor(made.A.shape[1])
              \cup DenseRhsFor(inst, made.A.shape[1]) :
       Method("PosDefSolver.solve", b, <<>>, PosDefSolver_solve(inst, b))

\* right-hand sides of three dimensions with n rows: one of ones and one
\* with an axis of length zero
Rhs3DFor(n) ==
  {Arr(<<n, 1, 1>>, [i \in 1..n |-> <<One>>]), zeros(<<n, 0, 1>>)}

PosDefSolveL ==
  /\ inst.cls = "PosDefSolver"
  /\ \E b \in RhsFor(made.A.shape[1]) \cup Rhs3DFor(made.A.shape[1])
              \cup DenseRhsFor(inst, made.A.shape[1]) :
       Method("PosDefSolver.solve_L", b, <<>>, PosDefSolver_solve_L(inst, b))

PosDefL ==
  /\ inst.cls = "PosDefSolver"
  /\ Method("PosDefSolver.L", <<>>, <<>>, PosDefSolver_L(inst))

PosDefLogDet ==
  /\ inst.cls = "PosDefSolver"
  /\ Method("PosDefSolver.log_det", <<>>, <<>>, PosDefSolver_log_det(inst))

\* right-hand side pairs (a, b) of the same trailing shape: 1-D pairs
\* loading a alone, b alone and both, a of ones with b of entries n, the
\* 2-D pair and the pair with no column
RhsPairs(n, p) ==
  {<<Arr(<<n>>, [i \in 1..n |-> <<One>>]), Arr(<<p>>, [i \in 1..p |-> <<Real(n)>>])>>,
   <<Arr(<<n>>, [i \in 1..n |-> <<One>>]), Arr(<<p>>, [i \in 1..p |-> <<Zero>>])>>,
   <<Arr(<<n>>, [i \in 1..n |-> <<Zero>>]), Arr(<<p>>, [i \in 1..p |-> <<One>>])>>,
   <<Arr(<<n>>, [i \in 1..n |-> <<IF i = 1 THEN One ELSE Zero>>]),
     Arr(<<p>>, [i \in 1..p |-> <<One>>])>>,
   <<Arr(<<n, 2>>, [i \in 1..n |-> <<One, IF i = 1 THEN One ELSE Zero>>]),
     Arr(<<p, 2>>, [i \in 1..p |-> <<One, IF i = 1 THEN One ELSE Zero>>])>>,
   <<zeros(<<n, 0>>), zeros(<<p, 0>>)>>}

PartitionedSolve ==
  /\ inst.cls = "PartitionedSolver"
  /\ \E ab \in RhsPairs(made.B.shape[1], made.B.shape[2]) :
       Method("PartitionedSolver.solve", ab[1], ab[2],
              PartitionedSolver_solve(inst, ab[1], ab[2]))

PartitionedPosDefSolve ==
  /\ inst.cls = "PartitionedPosDefSolver"
  /\ \E ab \in RhsPairs(made.B.shape[1], made.B.shape[2]) :
       Method("PartitionedPosDefSolver.solve", ab[1], ab[2],
              PartitionedPosDefSolver_solve(inst, ab[1], ab[2]))

\* the caller doubles, in place, one entry of the matrix L() returned:
\* L[i, i] *= 2 on an array, L.data[k] *= 2 on a sparse matrix; the write
\* lands in the object the value is, an attribute of the instance or not;
\* the caller writes until one write has reached the instance
ScaledEntry(X, i) ==
  [X EXCEPT !.v[i][i] = Mul(Real(2), @)]

ScaledStored(X, e) ==
  [X EXCEPT !.nz = (@ \ {e}) \cup {<<e[1], e[2], Mul(Real(2), e[3])>>}]

Written(W) ==
  /\ last' = [last EXCEPT !.op = "write", !.out.val = W]
  /\ inst' = IF PosDefSolver_L_object(inst) = <<"_solver", "chol">>
             THEN [inst EXCEPT !._solver.chol = W]
             ELSE inst
  /\ UNCHANGED <<HAS_CHOLMOD, made>>

CallerWrites ==
  /\ inst.cls = "PosDefSolver"
  /\ inst = made.self
  /\ last.op = "PosDefSolver.L"
  /\ last.out.ok
  /\ IF last.out.val.sp
     THEN \E e \in last.out.val.nz : Written(ScaledStored(last.out.val, e))
     ELSE \E i \in 1..last.out.val.shape[1] :
            Written(ScaledEntry(last.out.val, i))

\* the caller drops the instance and the result
Discard ==
  /\ ~Fresh
  /\ inst' = NoInst
  /\ made' = NoArgs
  /\ last' = Call("none", <<>>, <<>>, <<>>, Ok(<<>>, <<>>))
  /\ UNCHANGED HAS_CHOLMOD

Next ==
  \/ NewSolver
  \/ NewPosDefSolver
  \/ NewPartitionedSolver
  \/ NewPartitionedPosDefSolver
  \/ IsPositiveDefinite
  \/ SolverSolve
  \/ PosDefSolve
  \/ PosDefSolveL
  \/ PosDefL
  \/ PosDefLogDet
  \/ PartitionedSolve
  \/ PartitionedPosDefSolve
  \/ Discard

Spec == Init /\ [][Next]_vars

\* the operations of one class, for the properties of that class alone
NextSolver == NewSolver \/ SolverSolve \/ Discard

SpecSolver == Init /\ [][NextSolver]_vars

NextPosDef ==
  \/ NewPosDefSolver
  \/ IsPositiveDefinite
  \/ PosDefSolve
  \/ PosDefSolveL
  \/ PosDefL
  \/ PosDefLogDet
  \/ Discard

SpecPosDef == Init /\ [][NextPosDef]_vars

\* PosDefSolver with a caller that writes into the matrices it was handed
NextCaller ==
  \/ NewPosDefSolver
  \/ PosDefSolve
  \/ PosDefSolveL
  \/ PosDefL
  \/ PosDefLogDet
  \/ CallerWrites
  \/ Discard

SpecCaller == Init /\ [][NextCaller]_vars

NextPartitioned ==
  \/ NewPartitionedSolver
  \/ NewPartitionedPosDefSolver
  \/ PartitionedSolve
  \/ PartitionedPosDefSolve
  \/ Discard

SpecPartitioned == Init /\ [][NextPartitioned]_vars

\* ------------------------------------------------- reference definitions
\* the entries of f[1..k] written out as a tuple
RECURSIVE Entries(_, _)
Entries(f, k) == IF k = 0 THEN <<>> ELSE Append(Entries(f, k - 1), f[k])

RECURSIVE RowsOf(_, _)
RowsOf(X, k) ==
  IF k = 0 THEN <<>> ELSE Append(RowsOf(X, k - 1), Entries(X[k], Len(X[k])))

\* X without its first row and its column j
Minor(X, j) ==
  RowsOf([i \in 1..(Len(X) - 1) |-> [c \in 1..(Len(X) - 1) |->
            X[i + 1][IF c < j THEN c ELSE c + 1]]], Len(X) - 1)

RECURSIVE SumInts(_)
SumInts(s) == IF s = <<>> THEN 0 ELSE Head(s) + SumInts(Tail(s))

\* the determinant of a matrix of integers by expansion along the first row
RECURSIVE IntDet(_)
IntDet(X) ==
  IF Len(X) = 0 THEN 1
  ELSE SumInts([j \in 1..Len(X) |->
         IF X[1][j] = 0 THEN 0
         ELSE (IF j % 2 = 1 THEN 1 ELSE -1) * X[1][j] * IntDet(Minor(X, j))])

\* the determinant of the matrix with rows X, whose entries are integers
Det(X) ==
  IntDet(RowsOf([i \in 1..Len(X) |-> [j \in 1..Len(X) |-> X[i][j][1]]],
                Len(X)))

\* Sylvester's criterion on the symmetric matrix with rows X
IsSPD(X) ==
  \A k \in 1..Len(X) :
    Det([i \in 1..k |-> [j \in 1..k |-> X[i][j]]]) > 0

\* the rows of the matrix A as tuples
DenseRows(A) == With(as_array(A).v, LAMBDA X : RowsOf(X, Len(X)))

\* the rows of [[A, B], [Bt, 0]]
BlockRows(A, B) ==
  With(DenseBlock(as_array(A), as_array(B), B.shape[1], B.shape[2]).v,
       LAMBDA X : RowsOf(X, Len(X)))

ConstructorOps ==
  {"Solver", "PosDefSolver", "PartitionedSolver", "PartitionedPosDefSolver"}

\* -------------------------------------------------------------------- C1
\* C1: constructing PartitionedSolver or PartitionedPosDefSolver with a B
\* of fewer rows than columns raises the block-structure-singular error,
\* no backend routine having been called and no instance being created.
C1_BlockSingularBeforeFactoring ==
  (/\ last.op \in {"PartitionedSolver", "PartitionedPosDefSolver"}
   /\ last.y.shape[1] < last.y.shape[2])
  => /\ ~last.out.ok
     /\ last.out.err = BlockSingular
     /\ last.out.calls = <<>>
     /\ inst = NoInst

C1_Witness ==
  /\ last.op = "PartitionedSolver"
  /\ last.x.shape = <<2, 2>>
  /\ last.x.sp
  /\ last.y.shape = <<2, 3>>
  /\ ~last.out.ok

C3_IsPositiveDefiniteTotal ==
  (last.op = "is_positive_definite" /\ IsSquare(last.x.shape))
  => /\ last.out.ok
     /\ last.out.val = IsSPD(DenseRows(last.x))

\* -------------------------------------------------------------------- C4
\* C4: is_positive_definite returns false only when the attempt failed as
\* not positive definite, and with the backend importable that failure is
\* answered with false; a malformed A makes the call raise, it is never
\* answered with true or false.
C4_OnlyNotPositiveDefiniteBecomesFalse ==
  last.op = "is_positive_definite"
  => /\ (last.out.ok /\ last.out.val = FALSE)
        => /\ IsSquare(last.x.shape)
           /\ ~IsSPD(DenseRows(last.x))
           /\ With(PosDefSolver_init(last.x, last.p), LAMBDA t :
                ~t.ok /\ t.err \in {NotPositiveDefinite,
                                    CholmodNotPositiveDefinite})
     /\ (HAS_CHOLMOD /\ IsSquare(last.x.shape) /\ ~IsSPD(DenseRows(last.x)))
        => (last.out.ok /\ last.out.val = FALSE)
     /\ ~IsSquare(last.x.shape)
        => /\ ~last.out.ok
           /\ last.out.err \in {IllegalValue, CholmodNotSquare, CholmodUnbound}

C4_Witness ==
  /\ last.op = "is_positive_definite"
  /\ HAS_CHOLMOD
  /\ ~IsSquare(last.x.shape)
  /\ last.out.err = IllegalValue

\* -------------------------------------------------------------------- C5
\* C5: constructing PosDefSolver on a square matrix that is not positive
\* definite raises the not-positive-definite error of the path taken
\* (dense Cholesky, or the sparse backend when it is used) and leaves no
\* instance to call solve, solve_L, L or log_det on.
C5_NotPositiveDefiniteAtConstruction ==
  /\ (/\ last.op = "PosDefSolver"
      /\ IsSquare(last.x.shape)
      /\ ~IsSPD(DenseRows(last.x)))
     => /\ ~last.out.ok
        /\ last.out.err = IF last.x.sp /\ HAS_CHOLMOD
                          THEN CholmodNotPositiveDefinite
                          ELSE NotPositiveDefinite
        /\ inst = NoInst
  /\ inst.cls = "PosDefSolver" => IsSPD(DenseRows(made.A))

C5_Witness ==
  /\ last.op = "PosDefSolver"
  /\ last.x.sp
  /\ HAS_CHOLMOD
  /\ last.x.shape = <<2, 2>>
  /\ last.out.err = CholmodNotPositiveDefinite

\* -------------------------------------------------------------------- C6
\* C6: Solver.solve and PosDefSolver.solve on a b with an axis of length 0
\* return a zero-length result without calling a backend solve routine,
\* on the dense and on the sparse path.
C6_ZeroLengthRhsSkipsBackend ==
  (/\ last.op \in {"Solver.solve", "PosDefSolver.solve"}
   /\ HasZeroAxis(last.x.shape))
  => /\ last.out.ok
     /\ HasZeroAxis(last.out.val.shape)
     /\ last.out.calls = <<>>

\* -------------------------------------------------------------------- C7
\* C7: constructing Solver or PosDefSolver on a 0 x 0 matrix, dense or
\* sparse, succeeds without any backend call, and solve on the instance
\* returns a zero-length result.
C7_ZeroSizeMatrixSkipsBackend ==
  /\ (last.op \in {"Solver", "PosDefSolver"} /\ last.x.shape = <<0, 0>>)
     => /\ last.out.ok
        /\ last.out.calls = <<>>
  /\ (/\ last.op \in {"Solver.solve", "PosDefSolver.solve"}
      /\ made.A.shape = <<0, 0>>)
     => /\ last.out.ok
        /\ HasZeroAxis(last.out.val.shape)

\* -------------------------------------------------------------------- C8
\* C8: PosDefSolver construction emits the degraded-mode warning exactly
\* when A is sparse and the backend is unavailable; it then goes on with
\* the dense Cholesky of the dense A and installs the dense strategy.
C8_DegradedModeWarning ==
  last.op = "PosDefSolver"
  => /\ last.out.warns = IF last.x.sp /\ ~HAS_CHOLMOD THEN 1 ELSE 0
     /\ (last.x.sp /\ ~HAS_CHOLMOD)
        => /\ last.out.ok = _cholesky(toarray(last.x)).ok
           /\ last.out.calls = _cholesky(toarray(last.x)).calls
           /\ last.out.ok
              => /\ inst._solver.cls = "_DensePosDefSolver"
                 /\ inst._solver.chol = _cholesky(toarray(last.x)).val

C8_Witness ==
  /\ last.op = "PosDefSolver"
  /\ last.x.sp
  /\ ~HAS_CHOLMOD
  /\ last.x.shape = <<2, 2>>
  /\ last.out.warns = 1
  /\ last.out.ok
  /\ inst._solver.cls = "_DensePosDefSolver"

\* -------------------------------------------------------------------- C9
\* C9: with the backend unavailable, a PosDefSolver built on a sparse A
\* fails or succeeds as one built on A.toarray() does, and its solve,
\* solve_L, L and log_det return what those of that solver return.
OnDense(op, self, b) ==
  CASE op = "PosDefSolver.solve" -> PosDefSolver_solve(self, b)
    [] op = "PosDefSolver.solve_L" -> PosDefSolver_solve_L(self, b)
    [] op = "PosDefSolver.L" -> PosDefSolver_L(self)
    [] op = "PosDefSolver.log_det" -> PosDefSolver_log_det(self)

C9_FallbackSameOutcomes ==
  /\ (last.op = "PosDefSolver" /\ last.x.sp /\ ~HAS_CHOLMOD)
     => With(PosDefSolver_init(toarray(last.x), last.p), LAMBDA r :
          /\ last.out.ok = r.ok
          /\ last.out.err = r.err
          /\ last.out.val = r.val)
  /\ (/\ inst.cls = "PosDefSolver"
      /\ made.A.sp
      /\ ~HAS_CHOLMOD
      /\ last.op \notin ConstructorOps)
     => With(OnDense(last.op,
                     PosDefSolver_init(toarray(made.A), made.p).val, last.x),
             LAMBDA r :
               /\ last.out.ok = r.ok
               /\ last.out.err = r.err
               /\ last.out.val = r.val)

C9_Witness ==
  /\ last.op = "PosDefSolver.solve_L"
  /\ made.A.sp
  /\ ~HAS_CHOLMOD
  /\ made.A.shape = <<2, 2>>
  /\ last.x.shape = <<2>>
  /\ last.out.ok
  /\ \E i \in 1..2 : last.out.val.v[i][1][3] > 1

\* ------------------------------------------------------------------- C10
\* C10: for a dense square A whose LU factorization hits an exact zero
\* pivot, Solver(A) raises the singular-matrix error at construction and
\* no instance is created, so no solve call on that matrix returns.
C10_ZeroPivotRaisesAtConstruction ==
  /\ (/\ last.op = "Solver"
      /\ ~last.x.sp
      /\ last.x.shape # <<0, 0>>
      /\ dgetrf(last.x).info > 0)
     => /\ ~last.out.ok
        /\ last.out.err = Singular
        /\ inst = NoInst
  /\ (inst.cls = "Solver" /\ ~made.A.sp)
     => (0 # Det(DenseRows(made.A)))

C10_Witness ==
  /\ last.op = "Solver"
  /\ ~last.x.sp
  /\ last.x.shape = <<2, 2>>
  /\ ~IsZero(last.x.v[1][1])
  /\ last.out.err = Singular

\* ------------------------------------------------------------------- C11
\* the call op(x, y) on the instance self
CallOn(op, self, x, y) ==
  CASE op = "Solver.solve" -> Solver_solve(self, x)
    [] op = "PosDefSolver.solve" -> PosDefSolver_solve(self, x)
    [] op = "PosDefSolver.solve_L" -> PosDefSolver_solve_L(self, x)
    [] op = "PosDefSolver.L" -> PosDefSolver_L(self)
    [] op = "PosDefSolver.log_det" -> PosDefSolver_log_det(self)
    [] op = "PartitionedSolver.solve" -> PartitionedSolver_solve(self, x, y)
    [] op = "PartitionedPosDefSolver.solve" ->
         PartitionedPosDefSolver_solve(self, x, y)

MethodOps ==
  {"Solver.solve", "PosDefSolver.solve", "PosDefSolver.solve_L",
   "PosDefSolver.L", "PosDefSolver.log_det", "PartitionedSolver.solve",
   "PartitionedPosDefSolver.solve"}

Vec(xs) == Arr(<<Len(xs)>>, [i \in DOMAIN xs |-> <<xs[i]>>])

\* the instance was made from A = identity(3) and B = the column of ones,
\* and the last call was solve(a, b) with a = [1, 1, 1] and b = [3]
IsScenarioI3 ==
  /\ last.op \in {"PartitionedSolver.solve", "PartitionedPosDefSolver.solve"}
  /\ as_array(made.A) = Arr(<<3, 3>>, IdentityRows(3))
  /\ made.B = Arr(<<3, 1>>, <<<<One>>, <<One>>, <<One>>>>)
  /\ last.x = Vec(<<One, One, One>>)
  /\ last.y = Vec(<<Real(3)>>)

\* C12: for A = identity(3), B = the column [1, 1, 1], a = [1, 1, 1] and
\* b = [3] both partitioned solvers return x = [1, 1, 1] and y = [0], the
\* pair satisfies A.x + B.y = a and Bt.x = b, and PartitionedPosDefSolver
\* holds the factor of the 1 x 1 Schur complement Bt.AiB = [[3]].
C12_ScenarioIdentity3 ==
  IsScenarioI3
  => /\ last.out.ok
     /\ last.out.val = <<Vec(<<One, One, One>>), Vec(<<Zero>>)>>
     /\ add(dot(as_array(made.A), last.out.val[1]),
            dot(made.B, last.out.val[2])) = last.x
     /\ dot(T(made.B), last.out.val[1]) = last.y
     /\ inst.cls = "PartitionedPosDefSolver"
        => /\ dot(T(made.B), inst._AiB) = Arr(<<1, 1>>, <<<<Real(3)>>>>)
           /\ inst._BtAiB_solver._solver.cls = "_DensePosDefSolver"
           /\ inst._BtAiB_solver._solver.chol
                = Arr(<<1, 1>>, <<<<Sqrt(Real(3))>>>>)

C12_Witness ==
  /\ IsScenarioI3
  /\ inst.cls = "PartitionedPosDefSolver"
  /\ made.A.sp
  /\ HAS_CHOLMOD
  /\ last.out.ok

\* ------------------------------------------------------------------- C13
\* the instance was made from the array [[2, 0], [0, 2]]
IsScenarioTwoI2 ==
  /\ inst.cls = "PosDefSolver"
  /\ made.A = Arr(<<2, 2>>, <<<<Real(2), Zero>>, <<Zero, Real(2)>>>>)

\* C13: for the array A = [[2, 0], [0, 2]], PosDefSolver(A).solve([2, 2])
\* returns [1, 1] and PosDefSolver(A).log_det() returns log(4), the
\* logarithm of det(A) = 4.
C13_ScenarioTwoI2 ==
  /\ (/\ IsScenarioTwoI2
      /\ last.op = "PosDefSolver.solve"
      /\ last.x = Vec(<<Real(2), Real(2)>>))
     => /\ last.out.ok
        /\ last.out.val = Vec(<<One, One>>)
  /\ (IsScenarioTwoI2 /\ last.op = "PosDefSolver.log_det")
     => /\ last.out.ok
        /\ last.out.val = LogOf(Real(4))
        /\ Det(DenseRows(made.A)) = 4

C13_Witness ==
  /\ IsScenarioTwoI2
  /\ last.op = "PosDefSolver.solve"
  /\ last.x = Vec(<<Real(2), Real(2)>>)
  /\ last.out.val = Vec(<<One, One>>)

\* ------------------------------------------------------------------- C14
\* C14: PosDefSolver.solve_L(b) with a b that is neither 1-D nor 2-D raises
\* an invalid-argument error (ValueError) and returns no value, on the
\* dense and on the sparse path, also when b has an axis of length zero.
C14_SolveLRejectsOtherDimensions ==
  (last.op = "PosDefSolver.solve_L" /\ Len(last.x.shape) \notin {1, 2})
  => /\ ~last.out.ok
     /\ last.out.err[1] = "ValueError"

\* ------------------------------------------------------------------- C15
\* C15: as_sparse_or_array returns a csc matrix of the same entries for a
\* sparse A and the array itself otherwise; Solver installs the sparse LU
\* strategy exactly when A is sparse and calls only that strategy's
\* routines, at construction and in every solve; as_array returns an array
\* for every right-hand side, and solve on a sparse b returns what it
\* returns on the array of the same entries.
C15_DispatchOnRepresentation ==
  /\ last.op = "Solver"
     => /\ With(as_sparse_or_array(last.x), LAMBDA A1 :
             IF last.x.sp
             THEN A1.sp /\ A1.fmt = "csc" /\ toarray(A1) = toarray(last.x)
             ELSE A1 = last.x)
        /\ last.out.ok
           => inst._solver.cls = IF last.x.sp THEN "_SparseSolver"
                                 ELSE "_DenseSolver"
        /\ last.out.calls \in (IF last.x.sp THEN {<<"spilu">>}
                                ELSE {<<>>, <<"dgetrf">>})
  /\ last.op = "Solver.solve"
     => /\ inst._solver.cls = IF made.A.sp THEN "_SparseSolver"
                              ELSE "_DenseSolver"
        /\ ~as_array(last.x).sp
        /\ as_array(last.x).shape = last.x.shape
        /\ last.x.sp => as_array(last.x) = toarray(last.x)
        /\ last.out = Solver_solve(inst, as_array(last.x))
        /\ last.out.calls \in (IF made.A.sp THEN {<<"SuperLU.solve">>}
                                ELSE {<<>>, <<"dgetrs">>})

C15_Witness ==
  /\ last.op = "Solver.solve"
  /\ made.A.sp
  /\ made.A.shape = <<2, 2>>
  /\ last.x.sp
  /\ last.out.ok
  /\ last.out.val.shape = <<2, 1>>
  /\ ~last.out.val.sp
  /\ last.out.calls = <<"SuperLU.solve">>

PermuteSolveScale(self, b, j) ==
  With(ForwardSub(self.factor.l, Col(TakeRows(b.v, self.p), j), TRUE, <<>>),
       LAMBDA y : [i \in DOMAIN y |-> Mul(Inv(Sqrt(self.d[i])), y[i])])

C18_LogDet ==
  last.op = "PosDefSolver.log_det"
  => /\ last.out.ok
     /\ last.out.val = LogOf(Real(Det(DenseRows(made.A))))
     /\ inst._solver.cls = "_DensePosDefSolver"
        => last.out.val
             = TwiceLog(SumLogs([i \in DOMAIN inst._solver.chol.v |->
                                   LogOf(inst._solver.chol.v[i][i])]))
     /\ inst._solver.cls = "_SparsePosDefSolver"
        => /\ last.out.val
                = SumLogs([i \in DOMAIN inst._solver.d |->
                             LogOf(inst._solver.d[i])])
           /\ last.out.val
                = Then(_DensePosDefSolver_init(toarray(made.A)),
                       _DensePosDefSolver_log_det).val

C18_Witness ==
  /\ last.op = "PosDefSolver.log_det"
  /\ inst._solver.cls = "_SparsePosDefSolver"
  /\ made.p = <<1, 0>>
  /\ ~IsZero(toarray(made.A).v[1][2])
  /\ last.out.val = LogOf(Real(3))

\* ------------------------------------------------------------------- C19
AFactor == <<"_A_solver", "factor">>

ASolve == <<"_A_solver", "solve">>

SchurFactor == <<"_BtAiB_solver", "factor">>

SchurSolve == <<"_BtAiB_solver", "solve">>

IsPrefix(s, t) == Len(s) <= Len(t) /\ s = SubSeq(t, 1, Len(s))

\* C19: constructing PartitionedPosDefSolver tests N >= P before anything
\* else, then factors A, then solves once for AiB, then factors Bt*AiB,
\* stopping at the first step that fails; when A is not positive definite
\* the factorization of A is the only step attempted, the error is the
\* not-positive-definite one and no instance is created.
C19_ConstructionOrder ==
  last.op = "PartitionedPosDefSolver"
  => /\ IsPrefix(last.out.steps, <<AFactor, ASolve, SchurFactor>>)
     /\ last.y.shape[1] < last.y.shape[2]
        => /\ last.out.steps = <<>>
           /\ last.out.err = BlockSingular
     /\ last.y.shape[1] >= last.y.shape[2] => Len(last.out.steps) >= 1
     /\ last.out.ok => last.out.steps = <<AFactor, ASolve, SchurFactor>>
     /\ (~last.out.ok /\ Len(last.out.steps) = 3)
        => last.out.err \in {NotPositiveDefinite, CholmodNotPositiveDefinite}
     /\ (last.y.shape[1] >= last.y.shape[2] /\ ~IsSPD(DenseRows(last.x)))
        => /\ last.out.steps = <<AFactor>>
           /\ ~last.out.ok
           /\ last.out.err \in {NotPositiveDefinite,
                                 CholmodNotPositiveDefinite}
           /\ inst = NoInst
     /\ (last.y.shape[1] >= last.y.shape[2] /\ IsSPD(DenseRows(last.x)))
        => Len(last.out.steps) = 3

C19_Witness ==
  /\ last.op = "PartitionedPosDefSolver"
  /\ last.x.shape = <<2, 2>>
  /\ last.y.shape = <<2, 1>>
  /\ ~IsSPD(DenseRows(last.x))
  /\ last.out.steps = <<AFactor>>
  /\ inst = NoInst

\* ------------------------------------------------------------------- C20
FactorRoutines == {"dgetrf", "dpotrf", "spilu", "cholmod.cholesky"}

\* how many of the steps are the operation kind, through any attribute
CountKind(steps, kind) ==
  Cardinality({i \in DOMAIN steps : steps[i][Len(steps[i])] = kind})

\* how many of the steps are exactly the step e
CountStep(steps, e) == Cardinality({i \in DOMAIN steps : steps[i] = e})

\* how many of the backend calls are factorization routines
CountFactorCalls(calls) ==
  Cardinality({i \in DOMAIN calls : calls[i] \in FactorRoutines})

\* C20: a factorization is computed in constructors only: a constructor of
\* Solver or PosDefSolver that returns has computed exactly one, that of
\* PartitionedPosDefSolver exactly two, and no method call on an instance
\* computes any; a PartitionedPosDefSolver.solve call that returns has
\* performed exactly one solve against the factorization of A and exactly
\* two against the factorization of the Schur complement.
C20_EagerFactorization ==
  /\ (last.op \in {"Solver", "PosDefSolver"} /\ last.out.ok)
     => /\ CountKind(last.out.steps, "factor") = 1
        /\ CountFactorCalls(last.out.calls) <= 1
  /\ (last.op = "PartitionedPosDefSolver" /\ last.out.ok)
     => /\ CountKind(last.out.steps, "factor") = 2
        /\ CountStep(last.out.steps, AFactor) = 1
        /\ CountStep(last.out.steps, SchurFactor) = 1
        /\ CountFactorCalls(last.out.calls) <= 2
  /\ last.op \in MethodOps
     => /\ CountKind(last.out.steps, "factor") = 0
        /\ CountFactorCalls(last.out.calls) = 0
  /\ (last.op = "PartitionedPosDefSolver.solve" /\ last.out.ok)
     => /\ CountStep(last.out.steps, ASolve) = 1
        /\ CountStep(last.out.steps, SchurSolve) = 2
        /\ Len(last.out.steps) = 3

C20_Witness ==
  /\ last.op = "PartitionedPosDefSolver.solve"
  /\ last.out.ok
  /\ inst._A_solver._solver.cls = "_SparsePosDefSolver"
  /\ inst._AiB.shape = <<2, 1>>
  /\ last.out.steps = <<SchurSolve, SchurSolve, ASolve>>
  /\ last.out.calls = <<"dpotrs", "dpotrs", "cholmod.solve_A">>

\* ------------------------------------------------------------------- C21
\* C21: PartitionedSolver.solve(a, b) with a of N and b of P rows makes one
\* solve call on the one underlying Solver, with a stacked above b, and
\* returns the first N rows of its result as x and the other P rows as y,
\* N being the row count of B at construction: x above y is the result of
\* that call, row for row, and solves the block system for (a, b).
C21_ConcatenateSolveSplit ==
  (/\ last.op = "PartitionedSolver.solve"
   /\ last.x.shape[1] = made.B.shape[1]
   /\ last.y.shape[1] = made.B.shape[2])
  => /\ last.out.ok
     /\ inst.n = made.B.shape[1]
     /\ last.out.steps = <<<<"_solver", "solve">>>>
     /\ last.out.val[1].shape = as_array(last.x).shape
     /\ last.out.val[2].shape = as_array(last.y).shape
     /\ Len(last.out.val[1].v) = made.B.shape[1]
     /\ Len(last.out.val[2].v) = made.B.shape[2]
     /\ With(concatenate(as_array(last.x), as_array(last.y)).val, LAMBDA c :
          With(Solver_solve(inst._solver, c), LAMBDA xy :
            /\ xy.ok
            /\ last.out.calls = xy.calls
            /\ Len(xy.val.v) = made.B.shape[1] + made.B.shape[2]
            /\ last.out.val[1].v \o last.out.val[2].v = xy.val.v
            /\ \A i \in 1..made.B.shape[1] :
                 last.out.val[1].v[i] = xy.val.v[i]
            /\ \A i \in 1..made.B.shape[2] :
                 last.out.val[2].v[i] = xy.val.v[made.B.shape[1] + i]
            /\ dot(DenseBlock(as_array(made.A), as_array(made.B),
                              made.B.shape[1], made.B.shape[2]),
                   Arr(c.shape, last.out.val[1].v \o last.out.val[2].v)) = c))

C21_Witness ==
  /\ last.op = "PartitionedSolver.solve"
  /\ inst._solver._solver.cls = "_SparseSolver"
  /\ last.out.ok
  /\ last.out.val[1].shape = <<2>>
  /\ last.out.val[2].shape = <<1>>
  /\ last.out.val[1].v[1] # last.out.val[1].v[2]
  /\ last.out.val[1].v[2] # last.out.val[2].v[1]
  /\ last.out.val[1].v[1] # last.out.val[2].v[1]

\* ------------------------------------------------------------------- C22
\* C22: PartitionedSolver stacks [[A, B], [Bt, 0]] in the kind of A, B
\* being converted to a dense array first: for a sparse A the block matrix
\* is sparse and Solver installs the sparse LU strategy, for a dense A it
\* is dense and the dense LU strategy is installed; both block matrices
\* hold the same (N+P) x (N+P) entries.
C22_BlockKeepsKindOfA ==
  (/\ last.op = "PartitionedSolver"
   /\ last.y.shape[1] >= last.y.shape[2])
  => With(as_array(last.y), LAMBDA B1 :
       With(B1.shape[1], LAMBDA n :
         With(B1.shape[2], LAMBDA p :
           /\ ~B1.sp
           /\ last.x.sp
              => With(SparseBlock(as_sparse_or_array(last.x), B1, n, p),
                      LAMBDA C :
                        /\ C.sp
                        /\ C.shape = <<n + p, n + p>>
                        /\ toarray(C) = DenseBlock(toarray(last.x), B1, n, p)
                        /\ last.out.calls = <<"spilu">>
                        /\ last.out.ok = _SparseSolver_init(csc_matrix(C)).ok
                        /\ last.out.ok
                           => /\ inst._solver._solver.cls = "_SparseSolver"
                              /\ inst._solver._solver
                                   = _SparseSolver_init(csc_matrix(C)).val)
           /\ ~last.x.sp
              => With(DenseBlock(last.x, B1, n, p), LAMBDA C :
                   /\ ~C.sp
                   /\ C.shape = <<n + p, n + p>>
                   /\ \A i \in DOMAIN last.out.calls :
                        last.out.calls[i] = "dgetrf"
                   /\ last.out.ok = _DenseSolver_init(C).ok
                   /\ last.out.ok
                      => /\ inst._solver._solver.cls = "_DenseSolver"
                         /\ inst._solver._solver = _DenseSolver_init(C).val))))

C22_Witness ==
  /\ last.op = "PartitionedSolver"
  /\ last.x.sp
  /\ last.y.sp
  /\ last.x.shape = <<2, 2>>
  /\ last.out.ok
  /\ inst._solver._solver.cls = "_SparseSolver"

\* ------------------------------------------------------------------- C23
\* C23: on the dense path the status of dpotrf decides the outcome of the
\* construction: a positive status raises the not-positive-definite error
\* (LinAlgError), a negative one the invalid-argument error (ValueError)
\* and status zero stores the factor dpotrf returned; the two errors are of
\* different classes, is_positive_definite answers False to the first and
\* passes the second on, and with either error no instance exists.
C23_CholeskyStatusToError ==
  /\ NotPositiveDefinite[1] # IllegalValue[1]
  /\ (/\ last.op = "PosDefSolver"
      /\ ~last.x.sp \/ ~HAS_CHOLMOD
      /\ last.x.shape # <<0, 0>>)
     => With(dpotrf(as_array(last.x)), LAMBDA r :
          /\ last.out.calls = <<"dpotrf">>
          /\ r.info > 0 => /\ ~last.out.ok
                           /\ last.out.err = NotPositiveDefinite
                           /\ inst = NoInst
          /\ r.info < 0 => /\ ~last.out.ok
                           /\ last.out.err = IllegalValue
                           /\ inst = NoInst
          /\ r.info = 0 => /\ last.out.ok
                           /\ inst._solver.cls = "_DensePosDefSolver"
                           /\ inst._solver.chol = Arr(last.x.shape, r.L))
  /\ (/\ last.op = "is_positive_definite"
      /\ ~last.x.sp
      /\ HAS_CHOLMOD
      /\ last.x.shape # <<0, 0>>)
     => With(dpotrf(last.x), LAMBDA r :
          /\ r.info > 0 => last.out.ok /\ last.out.val = FALSE
          /\ r.info < 0 => ~last.out.ok /\ last.out.err = IllegalValue
          /\ r.info = 0 => last.out.ok /\ last.out.val = TRUE)

C23_Witness ==
  /\ last.op = "PosDefSolver"
  /\ ~last.x.sp
  /\ dpotrf(last.x).info < 0
  /\ last.out.err = IllegalValue
  /\ inst = NoInst

\* ------------------------------------------------------------------- C24
\* C24: no value a PosDefSolver method returns is the stored factorization
\* itself, so whatever the caller writes into a returned value, every later
\* solve, solve_L, L and log_det call returns what it returns on the
\* instance as constructed.
C24_ReturnedValuesNotAliased ==
  (inst.cls = "PosDefSolver" /\ last.op \in MethodOps)
  => last.out.val = CallOn(last.op, made.self, last.x, last.y).val

\* ------------------------------------------------------------------- C25
\* how many of the backend calls are the routine name
CountCalls(calls, name) ==
  Cardinality({i \in DOMAIN calls : calls[i] = name})

\* C25: in PartitionedPosDefSolver AiB and the Schur complement Bt*AiB are
\* dense arrays whatever A is, so the second PosDefSolver holds the dense
\* Cholesky strategy with or without the sparse backend, the sparse
\* factorization runs at most once, and one construction warns at most
\* once: exactly when A is sparse, the backend is unavailable and N >= P.
C25_SchurComplementDense ==
  last.op = "PartitionedPosDefSolver"
  => /\ last.out.warns <= 1
     /\ last.out.warns = 1
        <=> (last.x.sp /\ ~HAS_CHOLMOD
             /\ last.y.shape[1] >= last.y.shape[2])
     /\ CountCalls(last.out.calls, "cholmod.cholesky") <= 1
     /\ ~last.x.sp
        => CountCalls(last.out.calls, "cholmod.cholesky") = 0
     /\ last.out.ok
        => /\ ~inst._AiB.sp
           /\ ~dot(T(as_array(last.y)), inst._AiB).sp
           /\ inst._BtAiB_solver._solver.cls = "_DensePosDefSolver"
           /\ inst._BtAiB_solver
                = PosDefSolver_init(dot(T(as_array(last.y)), inst._AiB),
                                    IdentityOrdering(last.y.shape[2])).val
           /\ inst._A_solver._solver.cls = "_SparsePosDefSolver"
              <=> (last.x.sp /\ HAS_CHOLMOD)

C25_Witness ==
  /\ last.op = "PartitionedPosDefSolver"
  /\ last.x.sp
  /\ last.x.shape = <<2, 2>>
  /\ last.y.shape = <<2, 1>>
  /\ HAS_CHOLMOD
  /\ last.out.ok
  /\ inst._A_solver._solver.cls = "_SparsePosDefSolver"
  /\ inst._BtAiB_solver._solver.cls = "_DensePosDefSolver"
  /\ last.out.calls = <<"cholmod.cholesky", "cholmod.solve_A", "dpotrf">>

\* ------------------------------------------------------------------- C26
\* B has a column of zeros
HasZeroColumn(B) ==
  \E j \in 1..B.shape[2] : \A i \in 1..B.shape[1] : IsZero(B.v[i][j])

\* C26: with N >= P, a positive definite A and a B holding a column of
\* zeros, the construction of PartitionedPosDefSolver runs up to the
\* factorization of the Schur complement, which raises the
\* not-positive-definite error of dpotrf, and no instance exists; an
\* instance is returned only for a block matrix that is not singular.
C26_RankDeficientBRejected ==
  last.op = "PartitionedPosDefSolver"
  => /\ (/\ last.y.shape[1] >= last.y.shape[2]
         /\ IsSPD(DenseRows(last.x))
         /\ HasZeroColumn(as_array(last.y)))
        => /\ ~last.out.ok
           /\ last.out.err = NotPositiveDefinite
           /\ last.out.steps = <<AFactor, ASolve, SchurFactor>>
           /\ last.out.calls[Len(last.out.calls)] = "dpotrf"
           /\ inst = NoInst
     /\ last.out.ok => Det(BlockRows(last.x, last.y)) # 0
     /\ (/\ ~last.out.ok
         /\ Len(last.out.steps) = 3)
        => /\ Det(BlockRows(last.x, last.y)) = 0
           /\ last.out.err = NotPositiveDefinite

C26_Witness ==
  /\ last.op = "PartitionedPosDefSolver"
  /\ last.x.sp
  /\ HAS_CHOLMOD
  /\ last.x.shape = <<2, 2>>
  /\ last.y.shape = <<2, 1>>
  /\ HasZeroColumn(as_array(last.y))
  /\ last.out.err = NotPositiveDefinite
  /\ last.out.steps = <<AFactor, ASolve, SchurFactor>>
  /\ inst = NoInst

\* ------------------------------------------------------------------- C27
\* C27: for a dense positive definite A and a B of shape (N, 0) the
\* construction of PartitionedPosDefSolver succeeds, AiB being (N, 0) and
\* the factor of the (0, 0) Schur complement the (0, 0) array, dpotrf having
\* run for A only; solve(a, b) with a b of no rows then returns as x what
\* PosDefSolver(A).solve(a) returns, which solves A x = a, and as y an
\* array of no rows.
C27_NoConstraints ==
  /\ (/\ last.op = "PartitionedPosDefSolver"
      /\ ~last.x.sp
      /\ last.y.shape[2] = 0
      /\ IsSPD(DenseRows(last.x)))
     => /\ last.out.ok
        /\ inst._AiB = zeros(<<last.x.shape[1], 0>>)
        /\ inst._BtAiB_solver._solver.chol = zeros(<<0, 0>>)
        /\ CountCalls(last.out.calls, "dpotrf")
             = (IF last.x.shape[1] = 0 THEN 0 ELSE 1)
  /\ (/\ last.op = "PartitionedPosDefSolver.solve"
      /\ ~made.A.sp
      /\ made.B.shape[2] = 0)
     => /\ last.out.ok
        /\ last.out.val[1]
             = PosDefSolver_solve(PosDefSolver_init(made.A, made.p).val,
                                  last.x).val
        /\ dot(made.A, last.out.val[1]) = as_array(last.x)
        /\ last.out.val[2] = zeros(last.y.shape)
        /\ last.out.val[2].shape[1] = 0

C27_Witness ==
  /\ last.op = "PartitionedPosDefSolver.solve"
  /\ ~made.A.sp
  /\ made.B.shape = <<2, 0>>
  /\ ~IsZero(made.A.v[1][2])
  /\ last.x.shape = <<2, 2>>
  /\ last.y.shape = <<0, 2>>
  /\ last.out.ok
  /\ last.out.val[1] # zeros(<<2, 2>>)
  /\ last.out.val[2].shape = <<0, 2>>

\* ------------------------------------------------------------------- C28
\* C28: on the dense strategies solve of Solver and solve and solve_L of
\* PosDefSolver return, for a b with an axis of length zero, the array of
\* zeros of the shape of b with no error and no backend call, whatever the
\* number of axes and the number of rows of b; the same shapes without an
\* axis of length zero are turned down.
C28_ZeroAxisBeforeShapeValidation ==
  (/\ last.op \in {"Solver.solve", "PosDefSolver.solve",
                    "PosDefSolver.solve_L"}
   /\ inst._solver.cls \in {"_DenseSolver", "_DensePosDefSolver"})
  => With(as_array(last.x), LAMBDA b :
       /\ HasZeroAxis(b.shape)
          => /\ last.out.ok
             /\ last.out.val = zeros(b.shape)
             /\ last.out.val.shape = b.shape
             /\ last.out.calls = <<>>
       /\ (/\ ~HasZeroAxis(b.shape)
           /\ Len(b.shape) > 2 \/ b.shape[1] # made.A.shape[1])
          => /\ ~last.out.ok
             /\ last.out.err = IllegalValue)

C28_Witness ==
  /\ last.op = "PosDefSolver.solve"
  /\ inst._solver.cls = "_DensePosDefSolver"
  /\ made.A.shape = <<2, 2>>
  /\ last.x.shape = <<3, 0>>
  /\ last.out.ok
  /\ last.out.val = zeros(<<3, 0>>)

====
